---- MODULE Spec2Model ----
(***************************************************************************)
(* Model of the market-data streaming multiplexer of the tastytrade crate  *)
(* (src/src/streaming/quote_streamer.rs): the QuoteStreamer, the           *)
(* QuoteSubscription handles it hands out, the tasks the API calls spawn   *)
(* with tokio::spawn, the command queue, the Dispatcher task that drains   *)
(* it, and the Fan-out task that forwards transport events; and of the     *)
(* account-update streamer (src/src/streaming/account_streaming.rs): the   *)
(* AccountStreamer and the read, write and heartbeat tasks around its      *)
(* websocket.                                                              *)
(*                                                                         *)
(* The state is the one left by a successful QuoteStreamer::connect: the   *)
(* Dispatcher is running, channel_id and dxlink_command_tx are Some.       *)
(* Every tokio::spawn'ed task is its own process: the runtime may run the  *)
(* spawned tasks in any order relative to each other and to the caller.    *)
(* Callers keep the handles they are given, except in SpecHandles, where   *)
(* they may drop them.                                                     *)
(***************************************************************************)
EXTENDS Integers, Sequences, FiniteSets, TLC

\* ------------------------------------------------------------------ bounds
\* Number of API calls made on the streamer and its handles
\* (create_sub, clone, add_symbols, close_sub, drop of a handle or of the
\* streamer), and of calls of AccountStreamer::send.
MaxCalls == 3
\* Number of create_sub calls.
MaxSubs == 2
\* Capacity of a delivery channel. The code uses mpsc::channel(100); the model
\* scales it down, every statement about it is stated for any capacity.
DeliveryCapacity == 2
\* Number of events the transport emits: enough to overflow a delivery channel.
MaxEvents == DeliveryCapacity + 1
\* Number of transport calls (subscribe, unsubscribe, event_stream) that fail.
MaxFailures == 1
\* Number of messages the account websocket delivers.
MaxMessages == 3
\* Number of heartbeats of the AccountStreamer.
MaxHeartbeats == 3
\* Number of calls of connect.
MaxConnects == 2
\* Number of threads that set up the logger, and of calls each makes.
MaxThreads == 2
MaxSetups == 2

\* ------------------------------------------------------- program constants
DXF_ET_QUOTE == 1
DXF_ET_TRADE == 2
DXF_ET_GREEKS == 8
\* Capacity of the command queue, mpsc::channel::<DXLinkCommand>(100).
CommandCapacity == 100
\* The feed channel id the transport returned to connect.
channel_id == 1

\* The event-type flags create_sub is called with and the symbol lists
\* add_symbols is called with: subscriptions to the quotes of one symbol.
FlagInputs == {DXF_ET_QUOTE}
SymbolInputs == {<<"SPX">>}
\* The wider inputs of SpecRequests. Flags: Quote, Quote|Trade, a flag none
\* of the three tests looks at, Trade|Greeks.
RequestFlags == {1, 3, 4, 10}
RequestSymbols == {<<>>, <<"AAPL", "SPX">>}

\* ------------------------------------------------------------------ helpers
\* (event_flags & bit) != 0 for a non-negative i32 and a one-bit mask.
FlagSet(event_flags, bit) == (event_flags \div bit) % 2 = 1

RECURSIVE FlatMap(_, _)
\* symbols.iter().flat_map(f).collect(), f given as a function on symbols.
FlatMap(f, s) == IF s = <<>> THEN <<>> ELSE f[Head(s)] \o FlatMap(f, Tail(s))

FeedSubscription(event_type, sym) == [event_type |-> event_type, symbol |-> sym]

\* A variant of SymbolRequests that tests the wrong bit (4) for Greeks.
SymbolRequestsGreeksBit(sym, event_flags) ==
    (IF FlagSet(event_flags, DXF_ET_QUOTE) THEN <<FeedSubscription("Quote", sym)>> ELSE <<>>)
    \o (IF FlagSet(event_flags, DXF_ET_TRADE) THEN <<FeedSubscription("Trade", sym)>> ELSE <<>>)
    \o (IF FlagSet(event_flags, DXF_ET_TRADE * 2) THEN <<FeedSubscription("Greeks", sym)>> ELSE <<>>)

\* The closure of add_symbols: one request per set flag, Quote, Trade, Greeks.
SymbolRequests(sym, event_flags) ==
    (IF FlagSet(event_flags, DXF_ET_QUOTE) THEN <<FeedSubscription("Quote", sym)>> ELSE <<>>)
    \o (IF FlagSet(event_flags, DXF_ET_TRADE) THEN <<FeedSubscription("Trade", sym)>> ELSE <<>>)
    \o (IF FlagSet(event_flags, DXF_ET_GREEKS) THEN <<FeedSubscription("Greeks", sym)>> ELSE <<>>)

\* The request list add_symbols builds for `symbols`.
SubscriptionRequests(symbols, event_flags) ==
    FlatMap([sym \in {symbols[i] : i \in DOMAIN symbols} |-> SymbolRequests(sym, event_flags)],
            symbols)

\* The closure of close_sub: the same expansion, written a second time in the code.
CloseSymbolRequests(sym, event_flags) ==
    (IF FlagSet(event_flags, DXF_ET_QUOTE) THEN <<FeedSubscription("Quote", sym)>> ELSE <<>>)
    \o (IF FlagSet(event_flags, DXF_ET_TRADE) THEN <<FeedSubscription("Trade", sym)>> ELSE <<>>)
    \o (IF FlagSet(event_flags, DXF_ET_GREEKS) THEN <<FeedSubscription("Greeks", sym)>> ELSE <<>>)

\* The request list close_sub builds from the stored subscription's symbols.
UnsubscribeRequests(symbols, event_flags) ==
    FlatMap([sym \in {symbols[i] : i \in DOMAIN symbols} |-> CloseSymbolRequests(sym, event_flags)],
            symbols)

\* HashMap helpers.
EmptyMap == [k \in {} |-> 0]
MapPut(m, k, v) == [x \in (DOMAIN m) \cup {k} |-> IF x = k THEN v ELSE m[x]]
MapRemove(m, k) == [x \in (DOMAIN m) \ {k} |-> m[x]]

Range(s) == {s[i] : i \in DOMAIN s}

\* ----------------------------------------------------------------- commands
\* enum DXLinkCommand. arg is the u32 of the variant (feed channel id or
\* subscription id), sender the delivery channel of AddEventSender (0: none),
\* reqs the request list.
Command(type, arg, sender, reqs) ==
    [type |-> type, arg |-> arg, sender |-> sender, reqs |-> reqs]

Subscribe(ch, reqs) == Command("Subscribe", ch, 0, reqs)
Unsubscribe(ch, reqs) == Command("Unsubscribe", ch, 0, reqs)
CreateEventStream == Command("CreateEventStream", 0, 0, <<>>)
AddEventSender(sub_id, sender) == Command("AddEventSender", sub_id, sender, <<>>)
RemoveEventSender(sub_id) == Command("RemoveEventSender", sub_id, 0, <<>>)
Disconnect == Command("Disconnect", 0, 0, <<>>)

\* -------------------------------------------------------------------- state
VARIABLES
    next_sub_id,       \* QuoteStreamer.next_sub_id
    subscription_map,  \* QuoteStreamer.subscription_map: id -> the stored handle
    streamerAlive,     \* the QuoteStreamer returned by connect is not dropped yet
    handles,           \* every QuoteSubscription made so far, with its delivery channel
    tasks,             \* the tasks spawned with tokio::spawn, in spawn order
    queue,             \* the command queue (command_tx / command_rx)
    dispatcher,        \* "running" or "exited": the command handler task
    event_senders,     \* the Dispatcher's registry: id -> list of delivery channels
    subscribed,        \* the (event_type, symbol) pairs subscribed at the transport
    connected,         \* the transport connection is open
    emitted,           \* the events the transport has produced, in order
    loops,             \* the Fan-out tasks started by CreateEventStream
    failures,          \* transport calls that returned Err so far
    calls,             \* API calls made so far
    account,           \* the AccountStreamer, its tasks and its websocket
    connecting,        \* the calls of connect made so far, the last one maybe running
    logger             \* the global log subscriber, INIT and the threads that set it up

\* The variables of the QuoteStreamer.
quoteVars == <<next_sub_id, subscription_map, streamerAlive, handles, tasks, queue,
               dispatcher, event_senders, subscribed, connected, emitted,
               loops, failures, calls>>

vars == <<quoteVars, account, connecting, logger>>

\* A QuoteSubscription and the receiving end of its delivery channel
\* (dxlink_receiver). stored: it is the value kept in subscription_map.
\* open: the receiver has not been dropped. buf: the channel's content.
\* offered: the events the Fan-out tasks tried to send to it, received: the
\* events get_event returned (both kept for the properties), eos: get_event
\* returned Err. source: the handle it is the clone() of (0: none).
NewHandle(id, flags, symbols, stored, source) ==
    [id |-> id, event_types |-> flags, symbols |-> symbols, stored |-> stored,
     source |-> source, open |-> TRUE, buf |-> <<>>, offered |-> <<>>, received |-> <<>>, eos |-> FALSE]

\* A spawned task: the commands it sends one after the other, how many sends
\* it has made (pc) and which of them the queue accepted (sent). op, id,
\* handle, symbols, flags describe the API call that spawned it; seen is the
\* trace of its commands the Dispatcher has executed, each with the result of
\* the transport call (op to seen are kept for the properties).
NewTask(op, id, handle, symbols, flags, cmds) ==
    [op |-> op, id |-> id, handle |-> handle, symbols |-> symbols, flags |-> flags,
     cmds |-> cmds, pc |-> 0, sent |-> <<>>, seen |-> <<>>]

\* The task create_sub and clone spawn to register a delivery channel.
AddSenderTask(op, id, handle) ==
    NewTask(op, id, handle, <<>>, 0, <<AddEventSender(id, handle)>>)

\* The stream_task of create_sub.
StreamTask(id) == NewTask("create_stream", id, 0, <<>>, 0, <<CreateEventStream>>)

\* The commands the task spawned by add_symbols sends: one Subscribe, unless
\* the request list is empty.
SubscribeTaskCommands(ch, subscriptions) ==
    IF subscriptions # <<>> THEN <<Subscribe(ch, subscriptions)>> ELSE <<>>

\* A variant of CloseTaskCommands that unsubscribes first, whatever the list.
CloseTaskCommandsUnsubscribeFirst(sub_id, channel, requests) ==
    <<Unsubscribe(channel, requests), RemoveEventSender(sub_id)>>

\* The commands the task spawned by close_sub sends, in order: the
\* RemoveEventSender, then the Unsubscribe unless the request list is empty.
CloseTaskCommands(sub_id, channel, requests) ==
    <<RemoveEventSender(sub_id)>>
    \o (IF requests # <<>> THEN <<Unsubscribe(channel, requests)>> ELSE <<>>)

\* The task close_sub spawns for the stored subscription of id.
CloseTask(op, id, h) ==
    NewTask(op, id, h, handles[h].symbols, handles[h].event_types,
            CloseTaskCommands(id, channel_id,
                              UnsubscribeRequests(handles[h].symbols, handles[h].event_types)))

\* The task Drop for QuoteStreamer spawns.
DisconnectTask == NewTask("disconnect", 0, 0, <<>>, 0, <<Disconnect>>)

\* The task Drop spawns for the QuoteStreamer clone that create_sub put in the
\* Arc<Mutex<_>> of subscription id: its subscription_map is empty, so it
\* closes nothing and sends Disconnect.
CloneDisconnectTask(id) == NewTask("drop_clone", id, 0, <<>>, 0, <<Disconnect>>)

\* The Arc of subscription id is held by every QuoteSubscription of id (the
\* stored one, the returned one, the clones) and by the tasks of add_symbols
\* that have not finished (streamer_clone). A task with nothing to send is
\* taken to have finished.
ArcHeld(id, hs, ts) ==
    \/ \E h \in DOMAIN hs : hs[h].id = id /\ hs[h].open
    \/ \E t \in DOMAIN ts : /\ ts[t].op = "add_symbols" /\ ts[t].id = id
                             /\ ts[t].pc < Len(ts[t].cmds)

\* The tasks after a holder of the Arc of id was released: the last release
\* drops the QuoteStreamer clone.
ReleaseArc(id, hs, ts) ==
    IF ArcHeld(id, hs, ts) THEN ts ELSE Append(ts, CloneDisconnectTask(id))

\* The AccountStreamer after a successful connect (account_streaming.rs) and
\* the three tasks connect spawns around the websocket.
\*   messages   what the websocket has delivered, in order, to read.next()
\*   closed     the websocket stream has ended: read.next() returns None
\*   read_pos   the number of messages the read task has taken
\*   read_task, write_task, heartbeat_task
\*              "running", "ended" (the loop was left) or "panicked"
\*   events     the content of the event channel (event_sender/event_receiver)
\*   received   the events get_event returned, eos: it returned Err
\*   actions    the content of the action queue (action_sender/action_receiver)
\*   written    the requests written to the websocket
\*   submitted  every action the action queue has accepted, in order
\*   caller     "running", or "panicked": a call of send panicked
\*   calls      calls of send and subscribe_to_account made so far
\*   beats      heartbeat intervals that have ended so far
\*   alive      the AccountStreamer is not dropped yet
\*   cmd_tasks  the tasks spawned to send one DXLink command each, state
\*              "pending", "sent" or "failed"
\*   commands   the content of the DXLink command channel (dxlink_command_tx)
\*   handler    the DXLink command handler task: "running" or "exited"
\*   executed   the transport calls the command handler has made, in order
AccountInit ==
    [messages |-> <<>>, closed |-> FALSE, read_pos |-> 0, read_task |-> "running",
     events |-> <<>>, received |-> <<>>, eos |-> FALSE,
     actions |-> <<>>, written |-> <<>>, write_task |-> "running",
     submitted |-> <<>>,
     heartbeat_task |-> "running", caller |-> "running", calls |-> 0, beats |-> 0,
     alive |-> TRUE, cmd_tasks |-> <<>>, commands |-> <<>>, handler |-> "running",
     executed |-> <<>>]

\* The logger (src/src/utils/logger.rs) before any call, in a build for a
\* target other than wasm32 and a process in which nothing else installs a
\* global default subscriber.
\*   once       the state of INIT: "new", "running" (a thread is inside the
\*              closure of call_once), "done" or "poisoned"
\*   global     the max level of the global default subscriber, "unset": none
\*   installs   the successful calls of set_global_default
\*   requested  the level string of the call that found INIT new
\*   threads    per thread: pc ("idle", "waiting": blocked in call_once,
\*              "closure": running the closure, "panicked"), the level string
\*              of its running call, the calls it has made and whether a
\*              call of it ran the closure
LoggerInit ==
    [once |-> "new", global |-> "unset", installs |-> 0, requested |-> "",
     threads |-> [th \in 1..MaxThreads |->
                    [pc |-> "idle", level |-> "", setups |-> 0, first |-> FALSE]]]

Init ==
    /\ next_sub_id = 0
    /\ subscription_map = EmptyMap
    /\ streamerAlive = TRUE
    /\ handles = <<>>
    /\ tasks = <<>>
    /\ queue = <<>>
    /\ dispatcher = "running"
    /\ event_senders = EmptyMap
    /\ subscribed = {}
    /\ connected = TRUE
    /\ emitted = <<>>
    /\ loops = <<>>
    /\ failures = 0
    /\ calls = 0
    /\ account = AccountInit
    /\ connecting = <<>>
    /\ logger = LoggerInit

\* ---------------------------------------------------------------- API calls
\* A variant of NextSubId: the counter is not advanced.
NextSubIdStuck(n) == n

\* self.next_sub_id += 1 of create_sub, after the id was taken from it.
NextSubId(n) == n + 1

\* QuoteStreamer::create_sub(flags). The subscription built from dxlink_rx is
\* stored in subscription_map; the value returned is its clone(), which makes
\* a second delivery channel and spawns a second AddEventSender task.
create_sub(flags) ==
    /\ streamerAlive
    /\ calls < MaxCalls
    /\ next_sub_id < MaxSubs
    /\ LET id == next_sub_id
           stored == Len(handles) + 1
           returned == Len(handles) + 2
       IN /\ next_sub_id' = NextSubId(next_sub_id)
          /\ tasks' = tasks
                \o <<AddSenderTask("create_sub", id, stored)>>
                \o (IF DOMAIN subscription_map = {} THEN <<StreamTask(id)>> ELSE <<>>)
                \o <<AddSenderTask("create_sub", id, returned)>>
          /\ handles' = handles \o <<NewHandle(id, flags, <<>>, TRUE, 0),
                                     NewHandle(id, flags, <<>>, FALSE, stored)>>
          /\ subscription_map' = MapPut(subscription_map, id, stored)
    /\ calls' = calls + 1
    /\ UNCHANGED <<streamerAlive, queue, dispatcher, event_senders,
                   subscribed, connected, emitted, loops, failures, account, connecting, logger>>

\* impl Clone for QuoteSubscription, on a handle its caller holds.
clone(h) ==
    /\ calls < MaxCalls
    /\ ~handles[h].stored
    /\ handles[h].open
    /\ tasks' = Append(tasks, AddSenderTask("clone", handles[h].id, Len(handles) + 1))
    /\ handles' = Append(handles, NewHandle(handles[h].id, handles[h].event_types,
                                            handles[h].symbols, FALSE, h))
    /\ calls' = calls + 1
    /\ UNCHANGED <<next_sub_id, subscription_map, streamerAlive, queue, dispatcher,
                   event_senders, subscribed, connected, emitted, loops,
                   failures, account, connecting, logger>>

\* The (event type, symbol) pairs a request list names on the transport.
Pairs(reqs) == {<<reqs[i].event_type, reqs[i].symbol>> : i \in DOMAIN reqs}

\* A variant of add_symbols in which the caller subscribes on the transport
\* itself instead of spawning a task that sends the command.
add_symbols_direct(h, symbols) ==
    /\ calls < MaxCalls
    /\ ~handles[h].stored
    /\ handles[h].open
    /\ subscribed' = subscribed \cup Pairs(SubscriptionRequests(symbols, handles[h].event_types))
    /\ calls' = calls + 1
    /\ UNCHANGED <<next_sub_id, subscription_map, streamerAlive, handles, tasks, queue,
                   dispatcher, event_senders, connected,
                   emitted, loops, failures, account, connecting, logger>>

\* QuoteSubscription::add_symbols(symbols). my_symbols is a local that is
\* dropped at the end of the call: self.symbols is not written.
add_symbols(h, symbols) ==
    /\ calls < MaxCalls
    /\ ~handles[h].stored
    /\ handles[h].open
    /\ tasks' = Append(tasks,
            NewTask("add_symbols", handles[h].id, h, symbols, handles[h].event_types,
                    SubscribeTaskCommands(channel_id,
                        SubscriptionRequests(symbols, handles[h].event_types))))
    /\ calls' = calls + 1
    /\ UNCHANGED <<next_sub_id, subscription_map, streamerAlive, handles, queue,
                   dispatcher, event_senders, subscribed, connected,
                   emitted, loops, failures, account, connecting, logger>>

\* A caller drops a QuoteSubscription it holds. There is no Drop for
\* QuoteSubscription: its fields are dropped, the receiver of its channel and
\* its reference to the Arc.
drop_handle(h) ==
    /\ calls < MaxCalls
    /\ ~handles[h].stored
    /\ handles[h].open
    /\ handles' = [handles EXCEPT ![h].open = FALSE]
    /\ tasks' = ReleaseArc(handles[h].id, handles', tasks)
    /\ calls' = calls + 1
    /\ UNCHANGED <<next_sub_id, subscription_map, streamerAlive, queue, dispatcher,
                   event_senders, subscribed, connected, emitted, loops, failures, account, connecting, logger>>

\* A variant of CloseSubEffect that leaves the entry in the map.
CloseSubEffectKeepsEntry(op, id, state) ==
    IF id \in DOMAIN state.map
    THEN LET hs == [state.handles EXCEPT ![state.map[id]].open = FALSE]
         IN [map |-> state.map,
             tasks |-> ReleaseArc(id, hs, Append(state.tasks, CloseTask(op, id, state.map[id]))),
             handles |-> hs]
    ELSE state

\* What close_sub(id) does to the tasks, the handles and the map. Removing the
\* stored subscription drops it, and with it the receiver of its channel.
CloseSubEffect(op, id, state) ==
    IF id \in DOMAIN state.map
    THEN LET hs == [state.handles EXCEPT ![state.map[id]].open = FALSE]
         IN [map |-> MapRemove(state.map, id),
             tasks |-> ReleaseArc(id, hs, Append(state.tasks, CloseTask(op, id, state.map[id]))),
             handles |-> hs]
    ELSE state

\* QuoteStreamer::close_sub(id), for an id that is in the map or not.
close_sub(id) ==
    /\ streamerAlive
    /\ calls < MaxCalls
    /\ LET after == CloseSubEffect("close_sub", id, [map |-> subscription_map, tasks |-> tasks,
                                        handles |-> handles])
       IN /\ subscription_map' = after.map
          /\ tasks' = after.tasks
          /\ handles' = after.handles
    /\ calls' = calls + 1
    /\ UNCHANGED <<next_sub_id, streamerAlive, queue, dispatcher, event_senders,
                   subscribed, connected, emitted, loops, failures, account, connecting, logger>>

RECURSIVE CloseAll(_, _)
\* The loop of drop: close_sub for every key of subscription_map.
CloseAll(ids, state) ==
    IF ids = {} THEN state
    ELSE LET id == CHOOSE x \in ids : \A y \in ids : x <= y
         IN CloseAll(ids \ {id}, CloseSubEffect("drop", id, state))

\* impl Drop for QuoteStreamer, for the streamer connect returned.
drop_streamer ==
    /\ streamerAlive
    /\ calls < MaxCalls
    /\ LET after == CloseAll(DOMAIN subscription_map,
                             [map |-> subscription_map, tasks |-> tasks,
                              handles |-> handles])
       IN /\ subscription_map' = after.map
          /\ tasks' = Append(after.tasks, DisconnectTask)
          /\ handles' = after.handles
    /\ streamerAlive' = FALSE
    /\ calls' = calls + 1
    /\ UNCHANGED <<next_sub_id, queue, dispatcher, event_senders,
                   subscribed, connected, emitted, loops, failures, account, connecting, logger>>

\* ------------------------------------------------------------ spawned tasks
\* A variant of send that puts the message in front of the waiting ones.
send_front(q, m) == <<m>> \o q

\* tx.send(m) on the command queue, a tokio mpsc channel: the message goes
\* behind the ones waiting.
send(q, m) == Append(q, m)

\* One send(...).await of a spawned task. The send fails once the Dispatcher
\* has exited (the receiver is dropped), and the task goes on; it waits while
\* the queue is full. A task of add_symbols drops its streamer_clone when it
\* ends. by: the task that sent the command (for the properties).
task_send(t) ==
    /\ tasks[t].pc < Len(tasks[t].cmds)
    /\ dispatcher = "exited" \/ Len(queue) < CommandCapacity
    /\ LET cmd == tasks[t].cmds[tasks[t].pc + 1]
           accepted == dispatcher = "running"
           after == [tasks EXCEPT ![t].pc = @ + 1, ![t].sent = Append(@, accepted)]
       IN /\ tasks' = IF after[t].op = "add_symbols" /\ after[t].pc = Len(after[t].cmds)
                       THEN ReleaseArc(after[t].id, handles, after) ELSE after
          /\ queue' = IF accepted THEN send(queue, [cmd |-> cmd, by |-> t]) ELSE queue
    /\ UNCHANGED <<next_sub_id, subscription_map, streamerAlive, handles, dispatcher,
                   event_senders, subscribed, connected, emitted, loops,
                   failures, calls, account, connecting, logger>>

\* --------------------------------------------------------------- Dispatcher
\* The Fan-out task CreateEventStream starts: `senders` is the clone of
\* event_senders it is given. The events produced before it started (start)
\* are not in its sequence; pos is the last event it has read. What
\* client.event_stream() does is the transport's business: it may fail, and a
\* later call may give a second sequence, which carries the events produced
\* from then on.
NewLoop(senders) == [senders |-> senders, start |-> Len(emitted), pos |-> Len(emitted)]

\* The registry after AddEventSender: entry(subscription_id).or_default().push(sender).
AddSender(senders, subscription_id, sender) ==
    MapPut(senders, subscription_id,
           IF subscription_id \in DOMAIN senders
           THEN Append(senders[subscription_id], sender) ELSE <<sender>>)

\* The registry after RemoveEventSender: remove(&subscription_id).
RemoveSender(senders, subscription_id) == MapRemove(senders, subscription_id)

\* A variant of Exits: the command handler never leaves its loop.
ExitsNever(cmd, ok) == FALSE

\* A variant of Exits: the command handler also leaves its loop when the
\* transport call of the command fails.
ExitsOnError(cmd, ok) == cmd.type = "Disconnect" \/ ~ok

\* The command handler leaves its loop (break) after this command: only the
\* Disconnect arm has a break, the Err branches log and go on.
Exits(cmd, ok) == cmd.type = "Disconnect"

\* One iteration of the command handler: command_rx.recv() and the match.
\* ok is the result of the transport call the command makes.
dispatch ==
    /\ dispatcher = "running"
    /\ queue # <<>>
    /\ LET m == Head(queue)
           cmd == m.cmd
           calls_transport == cmd.type \in {"Subscribe", "Unsubscribe", "CreateEventStream"}
       IN \E ok \in BOOLEAN :
          /\ ~ok => calls_transport /\ failures < MaxFailures
          /\ failures' = IF ok THEN failures ELSE failures + 1
          /\ tasks' = [tasks EXCEPT ![m.by].seen = Append(@, [cmd |-> cmd, ok |-> ok])]
          /\ subscribed' =
                IF cmd.type = "Subscribe" /\ ok THEN subscribed \cup Pairs(cmd.reqs)
                ELSE IF cmd.type = "Unsubscribe" /\ ok THEN subscribed \ Pairs(cmd.reqs)
                ELSE subscribed
          /\ loops' = IF cmd.type = "CreateEventStream" /\ ok
                      THEN Append(loops, NewLoop(event_senders)) ELSE loops
          /\ event_senders' =
                IF cmd.type = "AddEventSender"
                THEN AddSender(event_senders, cmd.arg, cmd.sender)
                ELSE IF cmd.type = "RemoveEventSender"
                THEN RemoveSender(event_senders, cmd.arg)
                ELSE IF cmd.type = "Disconnect" THEN EmptyMap
                ELSE event_senders
          \* Disconnect: client.disconnect(), break; the task ends and drops
          \* command_rx with what is still queued, the client and event_senders.
          /\ dispatcher' = IF Exits(cmd, ok) THEN "exited" ELSE "running"
          /\ connected' = IF cmd.type = "Disconnect" THEN FALSE ELSE connected
          /\ queue' = IF Exits(cmd, ok) THEN <<>> ELSE Tail(queue)
    /\ UNCHANGED <<next_sub_id, subscription_map, streamerAlive, handles,
                   emitted, calls, account, connecting, logger>>

\* ---------------------------------------------------------------- transport
\* The tasks whose commands the Dispatcher has all executed, the transport
\* calls having succeeded.
Executed == {t \in DOMAIN tasks :
                /\ tasks[t].cmds # <<>>
                /\ Len(tasks[t].seen) = Len(tasks[t].cmds)
                /\ \A i \in DOMAIN tasks[t].seen : tasks[t].seen[i].ok}

\* The delivery channels of a registry: senders.values(), every list.
Senders(senders) == UNION {Range(senders[id]) : id \in DOMAIN senders}

\* The transport produces an event for a pair it is subscribed to. For the
\* properties, the event records the moment: registered, the channels in the
\* registry, and executed, the tasks whose commands had been executed.
emit ==
    /\ connected
    /\ Len(emitted) < MaxEvents
    /\ \E p \in subscribed :
        emitted' = Append(emitted, [event_type |-> p[1], symbol |-> p[2],
                                    registered |-> Senders(event_senders),
                                    executed |-> Executed])
    /\ UNCHANGED <<next_sub_id, subscription_map, streamerAlive, handles, tasks,
                   queue, dispatcher, event_senders, subscribed, connected,
                   loops, failures, calls, account, connecting, logger>>

\* The transport's event sequence terminates (the connection is lost): the
\* rx.recv() of a Fan-out task returns None once the task has read what was
\* produced. The command handler is not told.
stream_end ==
    /\ connected
    /\ connected' = FALSE
    /\ UNCHANGED <<next_sub_id, subscription_map, streamerAlive, handles, tasks,
                   queue, dispatcher, event_senders, subscribed, emitted,
                   loops, failures, calls, account, connecting, logger>>

\* ------------------------------------------------------------------ Fan-out
\* A variant of try_send that makes room by dropping the oldest event.
try_send_drop_oldest(h, e) ==
    [h EXCEPT !.offered = Append(@, e),
              !.buf = IF ~h.open THEN @
                      ELSE IF Len(h.buf) < DeliveryCapacity THEN Append(@, e)
                      ELSE Append(Tail(@), e)]

\* sender.try_send(event.clone()): the event is queued unless the channel is
\* full or its receiver is gone; the caller never waits.
try_send(h, e) ==
    [h EXCEPT !.offered = Append(@, e),
              !.buf = IF h.open /\ Len(h.buf) < DeliveryCapacity THEN Append(@, e) ELSE @]

\* One iteration of a Fan-out task: rx.recv() returns the next event and the
\* task offers it to every sender of its `senders`.
fan_out(l) ==
    /\ loops[l].pos < Len(emitted)
    /\ LET e == loops[l].pos + 1
       IN handles' = [h \in DOMAIN handles |->
                        IF h \in Senders(loops[l].senders)
                        THEN try_send(handles[h], e) ELSE handles[h]]
    /\ loops' = [loops EXCEPT ![l].pos = @ + 1]
    /\ UNCHANGED <<next_sub_id, subscription_map, streamerAlive, tasks, queue,
                   dispatcher, event_senders, subscribed, connected,
                   emitted, failures, calls, account, connecting, logger>>

\* ---------------------------------------------------------------- get_event
\* Some clone of the sending end of h's delivery channel still exists: in a
\* command not yet sent or not yet executed, in the registry, or in a Fan-out
\* task that has not ended (its event sequence is open or not read to the end).
SendersAlive(h) ==
    \/ \E t \in DOMAIN tasks : \E i \in (tasks[t].pc + 1)..Len(tasks[t].cmds) :
          tasks[t].cmds[i].sender = h
    \/ \E i \in DOMAIN queue : queue[i].cmd.sender = h
    \/ h \in Senders(event_senders)
    \/ \E l \in DOMAIN loops :
          /\ h \in Senders(loops[l].senders)
          /\ connected \/ loops[l].pos < Len(emitted)

\* The conversion of get_event: the dxfeed::Event of transport event e.
\* seq tells the copies of different transport events apart.
ToEvent(e) == [sym |-> emitted[e].symbol, data |-> emitted[e].event_type, seq |-> e]

\* QuoteSubscription::get_event on a handle its caller holds. It returns the
\* next event of the channel; when the channel is empty and closed it falls
\* back to event_receiver, whose sender create_sub dropped, and returns Err;
\* otherwise it stays suspended.
get_event(h) ==
    /\ ~handles[h].stored
    /\ handles[h].open
    /\ ~handles[h].eos
    /\ handles[h].buf # <<>> \/ ~SendersAlive(h)
    /\ handles' = IF handles[h].buf # <<>>
                  THEN [handles EXCEPT ![h].received = Append(@, ToEvent(Head(handles[h].buf))),
                                       ![h].buf = Tail(@)]
                  ELSE [handles EXCEPT ![h].eos = TRUE]
    /\ UNCHANGED <<next_sub_id, subscription_map, streamerAlive, tasks, queue,
                   dispatcher, event_senders, subscribed, connected,
                   emitted, loops, failures, calls, account, connecting, logger>>

\* ---------------------------------------------------------- AccountStreamer
\* What the websocket delivers: an Err of the transport, or a message whose
\* data is the JSON of an AccountEvent or something else.
MessageInputs == {[err |-> TRUE, data |-> ""],
                  [err |-> FALSE, data |-> "{status}"],
                  [err |-> FALSE, data |-> "not json"]}

\* serde_json::from_slice::<AccountEvent>(data): Ok(event) or Err.
from_slice(data) ==
    IF data = "{status}" THEN [ok |-> TRUE, value |-> "StatusMessage"]
    ELSE [ok |-> FALSE, value |-> ""]

\* The websocket delivers one more message.
ws_message(m) ==
    /\ ~account.closed
    /\ Len(account.messages) < MaxMessages
    /\ account' = [account EXCEPT !.messages = Append(@, m)]
    /\ UNCHANGED <<quoteVars, connecting, logger>>

\* The websocket stream ends.
ws_close ==
    /\ ~account.closed
    /\ account' = [account EXCEPT !.closed = TRUE]
    /\ UNCHANGED <<quoteVars, connecting, logger>>

\* The body of the read task's loop for message m, taken as number
\* a.read_pos: message.unwrap() panics on an Err, from_slice(..).unwrap()
\* panics on data that is not an AccountEvent, and the event is sent on the
\* event channel, whose receiver the AccountStreamer holds: once it is
\* dropped send_async(data).await.unwrap() panics.
read_message(a, m) ==
    IF m.err \/ ~from_slice(m.data).ok \/ ~a.alive
    THEN [a EXCEPT !.read_task = "panicked"]
    ELSE [a EXCEPT !.events = Append(@, a.read_pos)]

\* One iteration of the read task: read.next() gives the next message, or
\* None at the end of the stream, which ends the loop.
read_next ==
    /\ account.read_task = "running"
    /\ account.read_pos < Len(account.messages) \/ account.closed
    /\ account' =
          IF account.read_pos < Len(account.messages)
          THEN read_message([account EXCEPT !.read_pos = @ + 1],
                            account.messages[account.read_pos + 1])
          ELSE [account EXCEPT !.read_task = "ended"]
    /\ UNCHANGED <<quoteVars, connecting, logger>>

\* AccountStreamer::get_event: the next event of the channel; Err when the
\* channel is empty and its sender, which the read task owns, is dropped;
\* otherwise the call stays suspended.
account_get_event ==
    /\ account.alive
    /\ ~account.eos
    /\ account.events # <<>> \/ account.read_task # "running"
    /\ account' =
          IF account.events # <<>>
          THEN [account EXCEPT !.received = Append(@, Head(account.events)),
                               !.events = Tail(@)]
          ELSE [account EXCEPT !.eos = TRUE]
    /\ UNCHANGED <<quoteVars, connecting, logger>>

\* action_sender.send_async(action).await on the action queue, an unbounded
\* flume channel: Err when its receiver, which the write task owns, is gone.
send_async(a, action) ==
    IF a.write_task = "running"
    THEN [ok |-> TRUE, account |-> [a EXCEPT !.actions = Append(@, action),
                                             !.submitted = Append(@, action)]]
    ELSE [ok |-> FALSE, account |-> a]

\* AccountStreamer::send(action, value): send_async(..).await.unwrap().
account_send(action) ==
    /\ account.alive
    /\ account.caller = "running"
    /\ account.calls < MaxCalls
    /\ LET r == send_async([account EXCEPT !.calls = @ + 1], action)
       IN account' = IF r.ok THEN r.account
                     ELSE [r.account EXCEPT !.caller = "panicked"]
    /\ UNCHANGED <<quoteVars, connecting, logger>>

\* A variant of Beat: the interval ends and nothing is sent.
BeatSilent(a) == [a EXCEPT !.beats = @ + 1]

\* The end of one interval of 30 seconds: tokio::time::sleep returns in the
\* heartbeat task, which sends a Heartbeat and leaves the loop when the send
\* fails. Nothing is sent once the task has left the loop.
Beat(a) ==
    LET r == send_async([a EXCEPT !.beats = @ + 1], "Heartbeat")
    IN IF a.heartbeat_task # "running" THEN [a EXCEPT !.beats = @ + 1]
       ELSE IF r.ok THEN r.account
       ELSE [r.account EXCEPT !.heartbeat_task = "ended"]

\* One more heartbeat interval ends.
heartbeat ==
    /\ account.beats < MaxHeartbeats
    /\ account' = Beat(account)
    /\ UNCHANGED <<quoteVars, connecting, logger>>

\* One iteration of the write task: it takes the next action and writes the
\* request to the websocket; when the write fails it leaves the loop and
\* drops action_receiver with what is queued.
write_next ==
    /\ account.write_task = "running"
    /\ account.actions # <<>>
    /\ \E ok \in BOOLEAN :
          account' =
            IF ok THEN [account EXCEPT !.written = Append(@, Head(account.actions)),
                                       !.actions = Tail(@)]
            ELSE [account EXCEPT !.write_task = "ended", !.actions = <<>>]
    /\ UNCHANGED <<quoteVars, connecting, logger>>

\* AccountStreamer::subscribe_to_account of a streamer whose connect created
\* the feed channel: send(Connect, account number), which panics when the
\* action queue is closed, then a spawned task that sends Subscribe for the
\* Order and Message events of the account.
subscribe_to_account ==
    /\ account.alive
    /\ account.caller = "running"
    /\ account.calls < MaxCalls
    /\ LET r == send_async([account EXCEPT !.calls = @ + 1], "Connect")
           task == [cmd |-> Subscribe(channel_id, <<"Order", "Message">>),
                    state |-> "pending"]
       IN account' = IF r.ok THEN [r.account EXCEPT !.cmd_tasks = Append(@, task)]
                     ELSE [r.account EXCEPT !.caller = "panicked"]
    /\ UNCHANGED <<quoteVars, connecting, logger>>

\* Drop for AccountStreamer: a spawned task that sends Disconnect. The
\* fields are dropped after it: event_receiver, action_sender (the heartbeat
\* task keeps its sender_clone) and dxlink_command_tx.
drop_account ==
    /\ account.alive
    /\ account' = [account EXCEPT
                      !.alive = FALSE,
                      !.cmd_tasks = Append(@, [cmd |-> Disconnect, state |-> "pending"])]
    /\ UNCHANGED <<quoteVars, connecting, logger>>

\* tx_clone.send(command).await of spawned task t: Err once the command
\* handler has left its loop and dropped command_rx.
account_task_send(t) ==
    /\ account.cmd_tasks[t].state = "pending"
    /\ account' =
          IF account.handler = "running"
          THEN [account EXCEPT !.cmd_tasks[t].state = "sent",
                               !.commands = send(@, account.cmd_tasks[t].cmd)]
          ELSE [account EXCEPT !.cmd_tasks[t].state = "failed"]
    /\ UNCHANGED <<quoteVars, connecting, logger>>

\* One iteration of the DXLink command handler of the AccountStreamer:
\* command_rx.recv() and the match. ok is the result of the transport call;
\* only the Disconnect arm leaves the loop, and command_rx is dropped then.
account_dispatch ==
    /\ account.handler = "running"
    /\ account.commands # <<>>
    /\ LET cmd == Head(account.commands)
       IN \E ok \in BOOLEAN :
             account' =
               [account EXCEPT
                  !.executed = Append(@, [type |-> cmd.type, ok |-> ok]),
                  !.commands = IF Exits(cmd, ok) THEN <<>> ELSE Tail(@),
                  !.handler = IF Exits(cmd, ok) THEN "exited" ELSE @]
    /\ UNCHANGED <<quoteVars, connecting, logger>>

\* ------------------------------------------------------------------ connect
\* A call of connect. streamer: "quote" or "account"; pc: the step it is
\* about to make, "returned" when it is over; steps: the steps made, each
\* with the result the collaborator gave; result: "pending", "Ok" (a streamer
\* is returned) or "Err"; channel_id: "unset", "Some" or "None"; handler:
\* the command handler task, "none", "running" or "ended"; command_tx: the
\* sender of the command queue, "none", "held" by the returned streamer, or
\* "dropped".
NewConnect(streamer) ==
    [streamer |-> streamer,
     pc |-> IF streamer = "quote" THEN "quote_streamer_tokens" ELSE "connect",
     steps |-> <<>>, result |-> "pending", channel_id |-> "unset",
     handler |-> "none", command_tx |-> "none"]

\* return Err(..) out of connect: what connect owns is dropped.
ReturnErr(c) ==
    [c EXCEPT !.pc = "returned", !.result = "Err",
              !.command_tx = IF c.handler = "none" THEN "none" ELSE "dropped"]

\* tokio::spawn of the command handler task, which takes the client.
SpawnHandler(c) == [c EXCEPT !.handler = "running", !.command_tx = "held"]

\* One step of QuoteStreamer::connect with the result ok of the call it
\* makes: every Err returns. After setup_feed it spawns the command handler
\* and returns the streamer.
QuoteConnectStep(c, ok) ==
    IF ~ok THEN ReturnErr(c)
    ELSE IF c.pc = "quote_streamer_tokens" THEN [c EXCEPT !.pc = "connect"]
    ELSE IF c.pc = "connect" THEN [c EXCEPT !.pc = "create_feed_channel"]
    ELSE IF c.pc = "create_feed_channel"
         THEN [c EXCEPT !.pc = "setup_feed", !.channel_id = "Some"]
    ELSE [SpawnHandler(c) EXCEPT !.pc = "returned", !.result = "Ok"]

\* One step of AccountStreamer::connect: an Err of client.connect returns; an
\* Err of create_feed_channel leaves channel_id None and skips setup_feed; an
\* Err of setup_feed is logged; the command handler is spawned in any case,
\* and then connect_async opens the websocket, whose Err returns.
AccountConnectStep(c, ok) ==
    IF c.pc = "connect"
    THEN IF ok THEN [c EXCEPT !.pc = "create_feed_channel"] ELSE ReturnErr(c)
    ELSE IF c.pc = "create_feed_channel"
    THEN IF ok THEN [c EXCEPT !.pc = "setup_feed", !.channel_id = "Some"]
         ELSE [SpawnHandler(c) EXCEPT !.pc = "connect_async", !.channel_id = "None"]
    ELSE IF c.pc = "setup_feed"
    THEN [SpawnHandler(c) EXCEPT !.pc = "connect_async"]
    ELSE IF ok THEN [c EXCEPT !.pc = "returned", !.result = "Ok"]
         ELSE ReturnErr(c)

\* A caller calls QuoteStreamer::connect or AccountStreamer::connect.
connect(streamer) ==
    /\ Len(connecting) < MaxConnects
    /\ \A n \in DOMAIN connecting : connecting[n].pc = "returned"
    /\ connecting' = Append(connecting, NewConnect(streamer))
    /\ UNCHANGED <<quoteVars, account, logger>>

\* The running connect makes its next step; the collaborator answers ok.
connect_step ==
    /\ connecting # <<>>
    /\ LET n == Len(connecting)
           c == connecting[n]
           step(ok) == IF c.streamer = "quote" THEN QuoteConnectStep(c, ok)
                       ELSE AccountConnectStep(c, ok)
       IN /\ c.pc # "returned"
          /\ \E ok \in BOOLEAN :
                connecting' = [connecting EXCEPT ![n] =
                    [step(ok) EXCEPT !.steps = Append(@, [step |-> c.pc, ok |-> ok])]]
    /\ UNCHANGED <<quoteVars, account, logger>>

\* The command handler of a connect that returned Err: command_rx.recv()
\* returns None once command_tx is dropped, and the task ends.
handler_ends ==
    /\ \E n \in DOMAIN connecting :
          /\ connecting[n].handler = "running"
          /\ connecting[n].command_tx = "dropped"
          /\ connecting' = [connecting EXCEPT ![n].handler = "ended"]
    /\ UNCHANGED <<quoteVars, account, logger>>

\* ------------------------------------------------------------------- logger
\* The values of the LOGLEVEL environment variable, "": not set, and the
\* arguments of setup_logger_with_level.
LogLevelInputs == {"", "debug", "WARN", "verbose"}

\* str::to_uppercase on the strings used here.
to_uppercase(str) ==
    CASE str = "debug" -> "DEBUG"
      [] str = "verbose" -> "VERBOSE"
      [] OTHER -> str

\* env::var("LOGLEVEL").unwrap_or_else(|_| "INFO".to_string()).
env_var_or_info(value) == IF value = "" THEN "INFO" ELSE value

\* The match of the closure on the upper-cased string.
LevelOf(log_level) ==
    IF to_uppercase(log_level) \in {"DEBUG", "ERROR", "WARN", "TRACE"}
    THEN to_uppercase(log_level)
    ELSE "INFO"

\* A variant of call_once that runs the closure whatever the state of INIT.
call_once_unguarded(once) == "run"

\* std::sync::Once::call_once by the state of INIT: the caller runs the
\* closure, waits for the thread that runs it, returns at once, or panics
\* because an earlier closure panicked.
call_once(once) ==
    CASE once = "new" -> "run"
      [] once = "running" -> "wait"
      [] once = "done" -> "return"
      [] OTHER -> "panic"

\* A thread enters INIT.call_once with the level string log_level.
EnterCallOnce(l, th, log_level) ==
    LET does == call_once(l.once)
        t == [l.threads[th] EXCEPT !.setups = @ + 1, !.level = log_level]
    IN CASE does = "run" ->
              [l EXCEPT !.once = "running",
                        !.requested = IF l.once = "new" THEN log_level ELSE @,
                        !.threads[th] = [t EXCEPT !.pc = "closure", !.first = TRUE]]
         [] does = "wait" -> [l EXCEPT !.threads[th] = [t EXCEPT !.pc = "waiting"]]
         [] does = "return" -> [l EXCEPT !.threads[th] = t]
         [] OTHER -> [l EXCEPT !.threads[th] = [t EXCEPT !.pc = "panicked"]]

\* setup_logger() by thread th, LOGLEVEL having the given value.
setup_logger(th, value) ==
    /\ logger.threads[th].pc = "idle"
    /\ logger.threads[th].setups < MaxSetups
    /\ logger' = EnterCallOnce(logger, th, env_var_or_info(value))
    /\ UNCHANGED <<quoteVars, account, connecting>>

\* setup_logger_with_level(log_level) by thread th.
setup_logger_with_level(th, log_level) ==
    /\ logger.threads[th].pc = "idle"
    /\ logger.threads[th].setups < MaxSetups
    /\ logger' = EnterCallOnce(logger, th, log_level)
    /\ UNCHANGED <<quoteVars, account, connecting>>

\* The closure of either function, run by thread th: the subscriber is
\* built with the level and set_global_default(subscriber).expect(..) installs
\* it, or panics when a global default is set already, which poisons INIT.
closure(th) ==
    /\ logger.threads[th].pc = "closure"
    /\ logger' =
          IF logger.global = "unset"
          THEN [logger EXCEPT !.global = LevelOf(logger.threads[th].level),
                              !.installs = @ + 1,
                              !.once = "done",
                              !.threads[th].pc = "idle"]
          ELSE [logger EXCEPT !.once = "poisoned", !.threads[th].pc = "panicked"]
    /\ UNCHANGED <<quoteVars, account, connecting>>

\* A thread blocked in call_once goes on when the closure has ended: it
\* returns without running its own closure, or panics when INIT is poisoned.
call_once_wakes(th) ==
    /\ logger.threads[th].pc = "waiting"
    /\ logger.once \in {"done", "poisoned"}
    /\ logger' = [logger EXCEPT !.threads[th].pc =
                                    IF logger.once = "done" THEN "idle" ELSE "panicked"]
    /\ UNCHANGED <<quoteVars, account, connecting>>

\* ------------------------------------------------------------ specification
\* The API calls, with create_sub's flags and add_symbols' lists drawn from
\* the given sets, and close_sub called for the ids handed out so far and for
\* one that was not.
Api(flagSet, symbolSet) ==
    \/ \E flags \in flagSet : create_sub(flags)
    \/ \E h \in DOMAIN handles : clone(h)
    \/ \E h \in DOMAIN handles : \E symbols \in symbolSet : add_symbols(h, symbols)
    \/ \E id \in 0..next_sub_id : close_sub(id)
    \/ drop_streamer

\* The spawned tasks and the Dispatcher.
Commands ==
    \/ \E t \in DOMAIN tasks : task_send(t)
    \/ dispatch

\* The transport's events, the Fan-out tasks and the callers of get_event.
Events ==
    \/ emit
    \/ \E l \in DOMAIN loops : fan_out(l)
    \/ \E h \in DOMAIN handles : get_event(h)

Next == Api(FlagInputs, SymbolInputs) \/ Commands \/ Events

Spec == Init /\ [][Next]_vars

\* The behaviours of one subscription in which the transport produces no
\* event, for all the flags and symbol lists: the commands of add_symbols,
\* close_sub and drop.
NextRequests ==
    \/ \E flags \in RequestFlags : next_sub_id = 0 /\ create_sub(flags)
    \/ \E h \in DOMAIN handles : \E symbols \in RequestSymbols : add_symbols(h, symbols)
    \/ \E id \in 0..next_sub_id : close_sub(id)
    \/ drop_streamer
    \/ Commands

SpecRequests == Init /\ [][NextRequests]_vars

\* The behaviours of one subscription that is kept open: the deliveries to
\* its channels.
NextDelivery ==
    \/ \E flags \in FlagInputs : next_sub_id = 0 /\ create_sub(flags)
    \/ \E h \in DOMAIN handles : \E symbols \in SymbolInputs : add_symbols(h, symbols)
    \/ Commands
    \/ Events

SpecDelivery == Init /\ [][NextDelivery]_vars

\* The behaviours of one subscription that is kept open, in which the
\* transport's event sequence may terminate.
NextStreamEnd ==
    \/ NextDelivery
    \/ stream_end

SpecStreamEnd == Init /\ [][NextStreamEnd]_vars

\* The behaviours of an AccountStreamer: its websocket, its three tasks and
\* the callers of send and get_event.
NextAccount ==
    \/ \E m \in MessageInputs : ws_message(m)
    \/ ws_close
    \/ read_next
    \/ account_get_event
    \/ \E action \in {"Connect"} : account_send(action)
    \/ heartbeat
    \/ write_next

SpecAccount == Init /\ [][NextAccount]_vars

\* The tasks of one AccountStreamer other than the read task: the heartbeat
\* and write tasks, the DXLink command handler and the tasks that send to it.
NextAccountTasks ==
    \/ heartbeat
    \/ write_next
    \/ subscribe_to_account
    \/ drop_account
    \/ \E t \in DOMAIN account.cmd_tasks : account_task_send(t)
    \/ account_dispatch

SpecAccountTasks == Init /\ [][NextAccountTasks]_vars

\* The calls of connect, of either streamer, with every result of the steps.
NextConnect ==
    \/ \E streamer \in {"quote", "account"} : connect(streamer)
    \/ connect_step
    \/ handler_ends

SpecConnect == Init /\ [][NextConnect]_vars

\* The behaviours in which callers also drop the handles they hold, the
\* transport producing no event.
NextHandles ==
    \/ \E flags \in FlagInputs : create_sub(flags)
    \/ \E h \in DOMAIN handles : clone(h)
    \/ \E h \in DOMAIN handles : \E symbols \in SymbolInputs : add_symbols(h, symbols)
    \/ \E h \in DOMAIN handles : drop_handle(h)
    \/ \E id \in 0..next_sub_id : close_sub(id)
    \/ drop_streamer
    \/ Commands

SpecHandles == Init /\ [][NextHandles]_vars

\* The behaviours of one subscription to which symbols are added once, with
\* the transport's events, in which the streamer is also dropped: every
\* command that calls the transport, the Fan-out task and the spawned tasks.
NextTransport ==
    \/ \E flags \in FlagInputs : next_sub_id = 0 /\ create_sub(flags)
    \/ \E h \in DOMAIN handles : \E symbols \in SymbolInputs :
          /\ \A t \in DOMAIN tasks : tasks[t].op # "add_symbols"
          /\ add_symbols(h, symbols)
    \/ drop_streamer
    \/ Commands
    \/ emit
    \/ \E l \in DOMAIN loops : fan_out(l)

SpecTransport == Init /\ [][NextTransport]_vars

\* The threads that set up the logger.
NextLogger ==
    \/ \E th \in 1..MaxThreads : \E value \in LogLevelInputs : setup_logger(th, value)
    \/ \E th \in 1..MaxThreads : \E log_level \in LogLevelInputs \ {""} :
          setup_logger_with_level(th, log_level)
    \/ \E th \in 1..MaxThreads : closure(th)
    \/ \E th \in 1..MaxThreads : call_once_wakes(th)

SpecLogger == Init /\ [][NextLogger]_vars

\* The calls of create_sub, clone and close_sub alone, for all the flags,
\* close_sub called for the ids handed out so far and for one that was not:
\* what the calls do to the Streamer's bookkeeping and which tasks they spawn.
NextLifecycle ==
    \/ \E flags \in RequestFlags : create_sub(flags)
    \/ \E h \in DOMAIN handles : clone(h)
    \/ \E id \in 0..next_sub_id : close_sub(id)

SpecLifecycle == Init /\ [][NextLifecycle]_vars

\* ------------------------------------------------------------------ claims
Done(t) == tasks[t].pc = Len(tasks[t].cmds)

\* The Dispatcher has executed every command of task t.
AllExecuted(t) == Done(t) /\ Len(tasks[t].seen) = Len(tasks[t].cmds)

\* The commands of task t the Dispatcher has executed, then those still queued.
Observed(t) ==
    [i \in 1..Len(tasks[t].seen) |-> tasks[t].seen[i].cmd]
    \o [i \in 1..Len(SelectSeq(queue, LAMBDA m : m.by = t)) |->
            SelectSeq(queue, LAMBDA m : m.by = t)[i].cmd]

CloseTasks == {t \in DOMAIN tasks : tasks[t].op \in {"close_sub", "drop"}}

\* Some loop had started when event i was produced, and every such loop has read it.
FannedOut(i) ==
    /\ \E l \in DOMAIN loops : loops[l].start < i
    /\ \A l \in DOMAIN loops : loops[l].start < i => loops[l].pos >= i

\* C1: once the Dispatcher has executed every command sent for create_sub(id)
\* and close_sub(id), the registry has no delivery channel for id.
C1_ClosedIdNotRegistered ==
    \A id \in 0..next_sub_id :
        LET mine == {t \in DOMAIN tasks : tasks[t].id = id}
        IN (/\ \E t \in mine : tasks[t].op = "close_sub"
            /\ \A t \in mine : tasks[t].op \in {"create_sub", "create_stream", "close_sub"}
            /\ \A t \in mine : AllExecuted(t))
           => id \notin DOMAIN event_senders

\* C2: an event produced for a symbol of add_symbols(S), after the Subscribe
\* was executed and the handle create_sub returned was registered, is offered
\* to that handle's channel by the Fan-out task that reads it.
C2_SubscriberGetsItsEvents ==
    \A t \in DOMAIN tasks : \A i \in DOMAIN emitted :
        (/\ tasks[t].op = "add_symbols"
         /\ handles[tasks[t].handle].source # 0
         /\ handles[handles[tasks[t].handle].source].stored
         /\ t \in emitted[i].executed
         /\ tasks[t].handle \in emitted[i].registered
         /\ emitted[i].symbol \in Range(tasks[t].symbols)
         /\ FannedOut(i))
        => i \in Range(handles[tasks[t].handle].offered)

\* C3: a Fan-out task that reads an event offers it to every delivery channel
\* that is in the Dispatcher's registry at that moment.
C3_FanOutReadsTheRegistry ==
    [][\A l \in DOMAIN loops :
          loops'[l].pos = loops[l].pos + 1
          => \A h \in Senders(event_senders) :
                handles'[h].offered = Append(handles[h].offered, loops'[l].pos)]_vars

\* C4: an event produced when a handle and its clone are both registered and
\* offered to the handle's channel is offered to the clone's channel as well.
C4_CloneGetsItsOwnCopy ==
    \A c \in DOMAIN handles : \A i \in DOMAIN emitted :
        LET o == handles[c].source
        IN (/\ o # 0
            /\ ~handles[o].stored
            /\ {o, c} \subseteq emitted[i].registered
            /\ FannedOut(i)
            /\ i \in Range(handles[o].offered))
           => i \in Range(handles[c].offered)

\* C5: on drop of the streamer, Disconnect is sent only after every close
\* task of the drop has sent its commands, so that the Dispatcher has executed
\* them all when it exits.
C5_DisconnectAfterCloses ==
    \A d \in DOMAIN tasks : \A t \in DOMAIN tasks :
        (tasks[d].op = "disconnect" /\ tasks[t].op = "drop")
        => /\ tasks[d].pc > 0 => Done(t)
           /\ dispatcher = "exited" => AllExecuted(t)

RemoveExecuted(id) ==
    \E t \in DOMAIN tasks : \E i \in DOMAIN tasks[t].seen :
        tasks[t].seen[i].cmd = RemoveEventSender(id)

\* C7: once the Dispatcher has executed RemoveEventSender(id) and the registry
\* has no entry for id, no event is delivered to a channel of id.
C7_NoDeliveryAfterRemove ==
    [][\A h \in DOMAIN handles :
          (/\ dispatcher = "running"
           /\ RemoveExecuted(handles[h].id)
           /\ handles[h].id \notin DOMAIN event_senders)
          => Len(handles'[h].buf) <= Len(handles[h].buf)]_vars

\* C8: the task of a close sends an Unsubscribe with one request for every
\* (event type, symbol) pair add_symbols subscribed for that subscription.
C8_CloseUnsubscribesAddedSymbols ==
    \A c \in CloseTasks : \A a \in DOMAIN tasks :
        (tasks[a].op = "add_symbols" /\ tasks[a].id = tasks[c].id /\ a < c)
        => Pairs(SubscriptionRequests(tasks[a].symbols, tasks[a].flags))
             \subseteq UNION {Pairs(tasks[c].cmds[i].reqs) : i \in DOMAIN tasks[c].cmds}

\* The requests the specification asks of add_symbols: for the k-th symbol,
\* in order, one request per flag that is set.
Kinds == <<[name |-> "Quote", bit |-> DXF_ET_QUOTE], [name |-> "Trade", bit |-> DXF_ET_TRADE],
           [name |-> "Greeks", bit |-> DXF_ET_GREEKS]>>

ExpectedRequests(symbols, flags) ==
    LET all == [n \in 1..(3 * Len(symbols)) |->
                   [event_type |-> Kinds[((n - 1) % 3) + 1].name,
                    symbol |-> symbols[((n - 1) \div 3) + 1],
                    bit |-> Kinds[((n - 1) % 3) + 1].bit]]
        set == SelectSeq(all, LAMBDA r : (flags \div r.bit) % 2 = 1)
    IN [n \in 1..Len(set) |-> FeedSubscription(set[n].event_type, set[n].symbol)]

\* The sends task t has made.
Submitted(t) == SubSeq(tasks[t].cmds, 1, tasks[t].pc)

AddSymbolsTasks == {t \in DOMAIN tasks : tasks[t].op = "add_symbols"}

\* C9 as stated: the task of add_symbols(S) sends exactly one Subscribe, with
\* the expected requests.
C9_ExactlyOneSubscribe ==
    \A t \in AddSymbolsTasks :
        Done(t) => Submitted(t) =
            <<Subscribe(channel_id, ExpectedRequests(tasks[t].symbols, tasks[t].flags))>>

\* C9 as amended: the task of add_symbols(S) sends one Subscribe for the
\* streamer's channel with the expected requests when there is at least one,
\* and nothing when there is none; the Dispatcher sees no other command of it.
C9_OneSubscribeUnlessEmpty ==
    \A t \in AddSymbolsTasks :
        LET expected == ExpectedRequests(tasks[t].symbols, tasks[t].flags)
            subscribe == IF expected = <<>> THEN <<>>
                         ELSE <<Subscribe(channel_id, expected)>>
        IN /\ Done(t) => Submitted(t) = subscribe
           /\ \E n \in 0..Len(subscribe) : Observed(t) = SubSeq(subscribe, 1, n)

\* The Dispatcher has executed the Subscribe of add_symbols(["AAPL", "SPX"])
\* on a Quote|Trade handle: four requests.
C9_Witness ==
    \E t \in AddSymbolsTasks :
        /\ tasks[t].flags = 3 /\ tasks[t].symbols = <<"AAPL", "SPX">>
        /\ AllExecuted(t)
        /\ Len(tasks[t].seen[1].cmd.reqs) = 4

Min(a, b) == IF a < b THEN a ELSE b

\* C10: a delivery channel nobody reads holds the first DeliveryCapacity
\* events offered to it and no more, and a Fan-out task with an event to read
\* can always take its step.
C10_FullChannelKeepsTheFirst ==
    /\ \A h \in DOMAIN handles :
          (handles[h].open /\ handles[h].received = <<>>)
          => handles[h].buf = SubSeq(handles[h].offered, 1,
                                     Min(Len(handles[h].offered), DeliveryCapacity))
    /\ \A l \in DOMAIN loops : loops[l].pos < Len(emitted) => ENABLED fan_out(l)

\* A channel nobody read was offered more events than it holds: the later
\* ones were dropped and the Fan-out task went on.
C10_Witness ==
    \E h \in DOMAIN handles : \E l \in DOMAIN loops :
        /\ handles[h].received = <<>>
        /\ Len(handles[h].offered) > DeliveryCapacity
        /\ Len(handles[h].buf) = DeliveryCapacity
        /\ loops[l].pos = Len(handles[h].offered)

\* C11: when a Fan-out task reads an event while a channel it forwards to is
\* full, every open channel of the registry with free capacity still gets the
\* event, and the task can always take its step.
C11_FullChannelDropsForItselfOnly ==
    /\ [](\A l \in DOMAIN loops : loops[l].pos < Len(emitted) => ENABLED fan_out(l))
    /\ [][\A l \in DOMAIN loops :
            (/\ loops'[l].pos = loops[l].pos + 1
             /\ \E f \in Senders(loops[l].senders) :
                   handles[f].open /\ Len(handles[f].buf) = DeliveryCapacity)
            => \A h \in Senders(event_senders) :
                  (handles[h].open /\ Len(handles[h].buf) < DeliveryCapacity)
                  => handles'[h].buf = Append(handles[h].buf, loops'[l].pos)]_vars

\* Nothing is in flight: every spawned task has made its sends and the
\* Dispatcher, still running, has executed every queued command.
Quiescent == dispatcher = "running" /\ queue = <<>> /\ \A t \in DOMAIN tasks : Done(t)

\* A handle of id exists (the stored subscription or one a caller holds) and
\* id was not closed.
LiveHandle(id) ==
    /\ id \in DOMAIN subscription_map
    /\ \E h \in DOMAIN handles : handles[h].id = id /\ handles[h].open

\* C12: when the command queue is drained, an id is in the registry iff a
\* handle of it is live and not closed, and at most one RemoveEventSender was
\* executed for an id.
C12_RegistryIffLiveHandle ==
    Quiescent =>
        \A id \in 0..next_sub_id :
            /\ id \in DOMAIN event_senders <=> LiveHandle(id)
            /\ Cardinality({t \in DOMAIN tasks :
                               RemoveEventSender(id) \in {tasks[t].seen[i].cmd : i \in DOMAIN tasks[t].seen}}) <= 1

\* C13: CreateEventStream is submitted at most once, by the create_sub that
\* handed out the first id, and at most one Fan-out task is started.
C13_OneEventStream ==
    /\ \A t \in DOMAIN tasks : tasks[t].op = "create_stream" => tasks[t].id = 0
    /\ Cardinality({t \in DOMAIN tasks : tasks[t].op = "create_stream"}) <= 1
    /\ Len(loops) <= 1

\* C14: once a caller has dropped a handle of an id that was not closed, and
\* every spawned task has made its sends, a RemoveEventSender of that id was
\* submitted.
C14_DropTriggersCleanup ==
    \A h \in DOMAIN handles :
        (/\ ~handles[h].stored /\ ~handles[h].open
         /\ handles[h].id \in DOMAIN subscription_map
         /\ \A t \in DOMAIN tasks : Done(t))
        => \E t \in DOMAIN tasks : RemoveEventSender(handles[h].id) \in Range(Submitted(t))

\* The command the Dispatcher executes in this step is c.
Executes(c) ==
    \E t \in DOMAIN tasks :
        /\ Len(tasks'[t].seen) = Len(tasks[t].seen) + 1
        /\ tasks'[t].seen[Len(tasks'[t].seen)].cmd = c

\* The sends of task t the queue accepted.
Accepted(t) == Cardinality({i \in DOMAIN tasks[t].sent : tasks[t].sent[i]})

\* C15: the Dispatcher exits in the step that executes Disconnect; after that
\* it executes nothing, the transport and the registry are left alone, what
\* was queued behind the Disconnect is gone, and every send fails.
C15_DisconnectIsLast ==
    [][/\ Executes(Disconnect) => dispatcher' = "exited" /\ queue' = <<>>
       /\ dispatcher = "exited" =>
            /\ dispatcher' = "exited" /\ queue' = <<>>
            /\ \A t \in DOMAIN tasks : tasks'[t].seen = tasks[t].seen
            /\ UNCHANGED <<subscribed, connected, event_senders, loops, failures>>
            /\ \A t \in DOMAIN tasks :
                  tasks'[t].pc > tasks[t].pc
                  => tasks'[t].sent = Append(tasks[t].sent, FALSE)]_vars

\* The Dispatcher has exited with a command queued behind the Disconnect,
\* which it never executed, and a later send has failed.
C15_Witness ==
    /\ dispatcher = "exited"
    /\ \E t \in DOMAIN tasks : Len(tasks[t].seen) < Accepted(t)
    /\ \E t \in DOMAIN tasks : FALSE \in Range(tasks[t].sent)

\* Task t makes a send in this step.
Sends(t) == tasks'[t].pc = tasks[t].pc + 1

\* C16: a command the queue accepts goes behind the commands waiting; the
\* Dispatcher executes one command per step, the one at the head of the
\* queue, and takes it off; nothing else changes the queue.
C16_ExecutedInQueueOrder ==
    [][/\ \A t \in DOMAIN tasks :
            (Sends(t) /\ dispatcher = "running")
            => queue' = queue \o <<[cmd |-> tasks[t].cmds[tasks'[t].pc], by |-> t]>>
       /\ \A t \in DOMAIN tasks :
            tasks'[t].seen # tasks[t].seen
            => /\ queue # <<>> /\ Head(queue).by = t
               /\ tasks'[t].seen = Append(tasks[t].seen, tasks'[t].seen[Len(tasks'[t].seen)])
               /\ tasks'[t].seen[Len(tasks'[t].seen)].cmd = Head(queue).cmd
               /\ queue' = Tail(queue) \/ (Head(queue).cmd = Disconnect /\ queue' = <<>>)
               /\ \A u \in DOMAIN tasks \ {t} : tasks'[u].seen = tasks[u].seen
       /\ queue' # queue
            => \E t \in DOMAIN tasks : Sends(t) \/ tasks'[t].seen # tasks[t].seen]_vars

\* The Dispatcher has executed commands of two tasks while two more wait.
C16_Witness ==
    /\ Len(queue) >= 2
    /\ \E t, u \in DOMAIN tasks : t # u /\ tasks[t].seen # <<>> /\ tasks[u].seen # <<>>

\* C17: once the transport's event sequence has terminated and the Fan-out
\* task that served a handle has read it to the end, nothing being in flight,
\* get_event on that handle returns: a buffered event or the end of stream.
C17_EndOfStreamReachesSubscribers ==
    \A h \in DOMAIN handles :
        (/\ ~handles[h].stored /\ handles[h].open /\ ~handles[h].eos
         /\ ~connected
         /\ queue = <<>> /\ \A t \in DOMAIN tasks : Done(t)
         /\ \E l \in DOMAIN loops : h \in Senders(loops[l].senders)
         /\ \A l \in DOMAIN loops : loops[l].pos = Len(emitted))
        => ENABLED get_event(h)

\* C18: every well-formed message the websocket has delivered, whatever came
\* before it, is in the event channel, or was returned by get_event, or is
\* still to be taken by a read task that is alive.
C18_ReadLoopSkipsBadMessages ==
    \A i \in DOMAIN account.messages :
        (~account.messages[i].err /\ from_slice(account.messages[i].data).ok)
        => \/ i \in Range(account.events) \cup Range(account.received)
           \/ i > account.read_pos /\ account.read_task = "running"

\* C19: when the receiver of the action queue is gone (the write task has
\* ended), a call of AccountStreamer::send returns normally: the caller does
\* not panic.
C19_SendOnTornDownStreamerReturns ==
    account.write_task = "ended" => account.caller = "running"

\* The Dispatcher executes a Subscribe or an Unsubscribe of task t in this
\* step and the transport returns an error.
FailsFor(t) ==
    /\ Len(tasks'[t].seen) = Len(tasks[t].seen) + 1
    /\ ~tasks'[t].seen[Len(tasks'[t].seen)].ok
    /\ tasks'[t].seen[Len(tasks'[t].seen)].cmd.type \in {"Subscribe", "Unsubscribe"}

\* C20: the step in which a Subscribe or an Unsubscribe fails at the
\* transport leaves the Dispatcher running and the registry as it was and
\* takes only that command off the queue; a running Dispatcher can always
\* execute the command at the head of its queue.
C20_TransportErrorIsNotFatal ==
    /\ [](dispatcher = "running" /\ queue # <<>> => ENABLED dispatch)
    /\ [][\A t \in DOMAIN tasks :
            FailsFor(t)
            => /\ dispatcher' = "running"
               /\ event_senders' = event_senders
               /\ queue' = Tail(queue)]_vars

\* A Subscribe failed at the transport and the Dispatcher went on to execute
\* the Disconnect, which exits the loop and so was executed after it.
C20_Witness ==
    /\ \E t \in DOMAIN tasks : \E i \in DOMAIN tasks[t].seen :
          tasks[t].seen[i].cmd.type = "Subscribe" /\ ~tasks[t].seen[i].ok
    /\ \E t \in DOMAIN tasks : \E i \in DOMAIN tasks[t].seen :
          tasks[t].seen[i].cmd = Disconnect

\* C21: a connect one of whose steps failed made no step after it, has
\* returned Err, and leaves no command handler with a live queue.
C21_ConnectFailsTerminally ==
    \A n \in DOMAIN connecting :
        LET c == connecting[n] IN
        \A i \in DOMAIN c.steps :
            ~c.steps[i].ok
            => /\ i = Len(c.steps)
               /\ c.result = "Err"
               /\ c.command_tx # "held"


\* The number of Heartbeat actions in a sequence of actions.
Heartbeats(actions) ==
    Cardinality({i \in DOMAIN actions : actions[i] = "Heartbeat"})

\* No Subscribe or Unsubscribe command was submitted or executed.
NoSubscriptionCommands ==
    /\ \A t \in DOMAIN account.cmd_tasks :
           account.cmd_tasks[t].cmd.type \notin {"Subscribe", "Unsubscribe"}
    /\ \A i \in DOMAIN account.executed :
           account.executed[i].type \notin {"Subscribe", "Unsubscribe"}

AllocatedIds ==
    LET stored == {h \in DOMAIN handles : handles[h].stored}
    IN [k \in 1..Cardinality(stored) |->
          handles[CHOOSE h \in stored :
                     Cardinality({g \in stored : g <= h}) = k].id]

\* C23: the ids create_sub returned are strictly increasing in allocation
\* order, hence pairwise distinct, and the next id is above all of them,
\* whether they were closed or not.
C23_IdsStrictlyIncreasing ==
    /\ \A i, j \in DOMAIN AllocatedIds : i < j => AllocatedIds[i] < AllocatedIds[j]
    /\ \A i \in DOMAIN AllocatedIds : AllocatedIds[i] < next_sub_id

\* Two ids were handed out, the second after close_sub of the first.
C23_Witness ==
    /\ Len(AllocatedIds) = 2
    /\ \E t, u \in DOMAIN tasks :
          /\ t < u
          /\ tasks[t].op = "close_sub" /\ tasks[t].id = AllocatedIds[1]
          /\ tasks[u].op = "create_sub" /\ tasks[u].id = AllocatedIds[2]


\* C24: close_sub(id) leaves id out of the bookkeeping, so that a second
\* close_sub(id) in a row finds it missing; and close_sub(id) for an id that
\* is missing spawns no task, submits no command and changes nothing of
\* the Streamer.
C24_CloseSubOfMissingIdIsNoOp ==
    [][\A id \in 0..MaxSubs :
          close_sub(id)
          => /\ id \notin DOMAIN subscription_map'
             /\ id \notin DOMAIN subscription_map
                => UNCHANGED <<next_sub_id, subscription_map, streamerAlive,
                               handles, tasks, queue, dispatcher, event_senders,
                               subscribed, connected, loops>>]_vars

\* Three calls, one create_sub (no clone: two handles) and two close_sub of
\* its id, of which one found the id missing: there is one close task.
C24_Witness ==
    /\ calls = 3
    /\ next_sub_id = 1
    /\ Len(handles) = 2
    /\ subscription_map = EmptyMap
    /\ Cardinality({t \in DOMAIN tasks : tasks[t].op = "close_sub"}) = 1


\* The step is one of the command handler, which takes the command at the
\* head of the queue.
DispatcherStep ==
    /\ dispatcher = "running"
    /\ queue # <<>>
    /\ Executes(Head(queue).cmd)

\* C25: a step in which the transport is called (the set of subscriptions on
\* it changes, it is disconnected, an event stream is created on it, or a
\* call of it fails) is a step of the command handler, executing a command
\* that calls the transport.
C25_OnlyDispatcherCallsTransport ==
    [][\/ subscribed' # subscribed
       \/ connected' # connected
       \/ Len(loops') # Len(loops)
       \/ failures' # failures
       => /\ DispatcherStep
          /\ Head(queue).cmd.type \in
                {"Subscribe", "Unsubscribe", "CreateEventStream", "Disconnect"}]_vars

\* An event stream was created on the transport and delivered an event, a
\* Subscribe was executed on it, and it was disconnected.
C25_Witness ==
    /\ ~connected
    /\ subscribed # {}
    /\ \E l \in DOMAIN loops : loops[l].pos > loops[l].start


C27_NoDisconnectFromHandles ==
    streamerAlive
    => \A t \in DOMAIN tasks : Disconnect \notin Range(tasks[t].cmds)


\* Tasks t and u were spawned by the same call: create_sub spawns the two
\* AddEventSender tasks and the CreateEventStream task of its id, every
\* other call spawns one task.
SameCall(t, u) ==
    \/ t = u
    \/ /\ tasks[t].id = tasks[u].id
       /\ {tasks[t].op, tasks[u].op} \subseteq {"create_sub", "create_stream"}

\* The tasks spawned by create_sub, clone, add_symbols and close_sub, which
\* are in the order of the calls.
CallTasks ==
    {t \in DOMAIN tasks :
        tasks[t].op \in {"create_sub", "create_stream", "clone", "add_symbols", "close_sub"}}

\* C28: a task of a later call has sent nothing as long as a task of an
\* earlier call has a command left to send.
C28_CallOrderOnQueue ==
    \A t, u \in CallTasks :
        (t < u /\ ~SameCall(t, u) /\ tasks[u].pc > 0) => Done(t)


\* C29: the events get_event has returned on a handle are transport events
\* in the order of the transport's sequence, none of them twice.
C29_ReceivedInOrderOnce ==
    \A h \in DOMAIN handles :
        \A i, j \in DOMAIN handles[h].received :
            i < j => handles[h].received[i].seq < handles[h].received[j].seq


\* The AccountStreamer is dropped and everything the drop set off is over:
\* the spawned tasks have made their sends, the command channel and the
\* action queue are empty.
DropSettled ==
    /\ ~account.alive
    /\ \A t \in DOMAIN account.cmd_tasks : account.cmd_tasks[t].state # "pending"
    /\ account.commands = <<>>
    /\ account.actions = <<>>

\* C30: once the drop of the AccountStreamer is settled, the command handler
\* has exited and the heartbeat and write tasks have left their loops.
C30_TasksEndAfterDrop ==
    DropSettled
    => /\ account.handler = "exited"
       /\ account.heartbeat_task # "running"
       /\ account.write_task # "running"

====
